---- MODULE Spec2Model ----
(***************************************************************************)
(* EduSkillUp analytics dashboard (streamlit_app.py).                      *)
(*                                                                         *)
(* A table (pandas DataFrame) is a record [cols, rows]: the set of its     *)
(* column names and the sequence of its rows, each row a function from     *)
(* the column names to values.  Dates are day ordinals counted from        *)
(* 2024-01-01 (ordinal 0).  Numbers with a fractional part (prices,        *)
(* progress, sample scores) are held in hundredths.  A quotient is held    *)
(* exactly as a record [n, d] in lowest terms; d = 0 is the                *)
(* float result of a division by zero: inf when n > 0, NaN when n = 0.     *)
(***************************************************************************)
EXTENDS Integers, Sequences, FiniteSets, TLC

VARIABLES
    disk,           \* the CSV files of the working directory
    cache,          \* st.cache_data entry of load_data_from_csv: <<>> or <<result>>
    session_state,  \* st.session_state: data_loaded, enrollment_df, performance_df
    run,            \* what the latest run of main computed and showed
    call            \* a call of filter_data: its arguments and its result

vars == <<disk, cache, session_state, run, call>>

(***************************************************************************)
(* Bounds of the model                                                     *)
(***************************************************************************)
MaxFactRows == 3     \* rows of the master fact tables a CSV file draws from
MaxDeselected == 1   \* options a user has unticked over the four multiselects
MaxEdits == 1        \* edits of FactAssessmentPerformance.csv in a behaviour
MaxFilterRows == 3   \* rows of the tables filter_data is called on directly

(***************************************************************************)
(* Generic helpers                                                         *)
(***************************************************************************)
NaN == "NaN"         \* the null pandas puts in a cell without a value
NaT == 0 - 1         \* the null of a datetime column

Table(cols, rows) == [cols |-> cols, rows |-> rows]

Len0(t) == Len(t.rows)

\* df[mask]: the rows that satisfy Keep, in their order
SelectRows(rows, Keep(_)) ==
    LET F[i \in 0..Len(rows)] ==
            IF i = 0 THEN <<>>
            ELSE IF Keep(rows[i]) THEN Append(F[i - 1], rows[i]) ELSE F[i - 1]
    IN  F[Len(rows)]

\* (mask).sum(): how many rows satisfy Is
CountRows(rows, Is(_)) == Cardinality({i \in 1..Len(rows) : Is(rows[i])})

RECURSIVE SumCol(_, _)
SumCol(rows, c) ==
    IF rows = <<>> THEN 0 ELSE Head(rows)[c] + SumCol(Tail(rows), c)

\* series.unique(): the values of a column
Unique(t, c) == {t.rows[i][c] : i \in 1..Len(t.rows)}

\* series.nunique(): how many values, the null not counted
NUnique(t, c) == Cardinality(Unique(t, c) \ {NaN})

\* df[c] = values: add or overwrite a column, Val(i, row) being row i's value
SetColumn(t, c, Val(_, _)) ==
    Table(t.cols \cup {c},
          [i \in 1..Len(t.rows) |->
              [k \in t.cols \cup {c} |->
                  IF k = c THEN Val(i, t.rows[i]) ELSE t.rows[i][k]]])

\* df[[...]]: a projection
Project(t, cols) ==
    Table(cols, [i \in 1..Len(t.rows) |-> [k \in cols |-> t.rows[i][k]]])

RECURSIVE Flatten(_)
Flatten(ss) == IF ss = <<>> THEN <<>> ELSE Head(ss) \o Flatten(Tail(ss))

\* how='inner' in place of how='left': a left row without a match is dropped
MergeInnerRow(l, right, on, cols) ==
    LET hits == SelectRows(right.rows, LAMBDA r : r[on] = l[on])
    IN  [j \in 1..Len(hits) |->
            [k \in cols |-> IF k \in DOMAIN l THEN l[k] ELSE hits[j][k]]]

\* one left row joined with the right rows of equal key (how='left': when
\* there is none, the left row with nulls in the right table's columns)
MergeLeftRow(l, right, on, cols) ==
    LET hits == SelectRows(right.rows, LAMBDA r : r[on] = l[on])
        Join(r) == [k \in cols |-> IF k \in DOMAIN l THEN l[k] ELSE r[k]]
    IN  IF hits = <<>>
        THEN << [k \in cols |-> IF k \in DOMAIN l THEN l[k] ELSE NaN] >>
        ELSE [j \in 1..Len(hits) |-> Join(hits[j])]

\* left.merge(right, on=on, how='left')
MergeLeft(left, right, on) ==
    LET cols == left.cols \cup right.cols
    IN  Table(cols,
              Flatten([i \in 1..Len(left.rows) |->
                          MergeLeftRow(left.rows[i], right, on, cols)]))

(***************************************************************************)
(* Dates: pd.to_datetime(key.astype(str), format='%Y%m%d')                 *)
(***************************************************************************)
IsLeap(y) == (y % 4 = 0 /\ y % 100 # 0) \/ y % 400 = 0

DaysInMonth(y, m) ==
    IF m = 2 THEN (IF IsLeap(y) THEN 29 ELSE 28)
    ELSE IF m \in {4, 6, 9, 11} THEN 30 ELSE 31

RECURSIVE DaysBeforeMonth(_, _)
DaysBeforeMonth(y, m) ==
    IF m <= 1 THEN 0 ELSE DaysBeforeMonth(y, m - 1) + DaysInMonth(y, m - 1)

RECURSIVE DaysBeforeYear(_)
DaysBeforeYear(y) ==
    IF y <= 2024 THEN 0
    ELSE DaysBeforeYear(y - 1) + (IF IsLeap(y - 1) THEN 366 ELSE 365)

DateOrdinal(y, m, d) == DaysBeforeYear(y) + DaysBeforeMonth(y, m) + (d - 1)

KeyYear(k) == k \div 10000
KeyMonth(k) == (k \div 100) % 100
KeyDay(k) == k % 100

\* does the date key name a calendar day (else to_datetime raises)
DateKeyValid(k) ==
    /\ KeyYear(k) >= 2024
    /\ KeyMonth(k) \in 1..12
    /\ KeyDay(k) \in 1..DaysInMonth(KeyYear(k), KeyMonth(k))

ParseDateKey(k) == DateOrdinal(KeyYear(k), KeyMonth(k), KeyDay(k))

\* pd.Timestamp('2024-08-29') and pd.date_range('2024-08-29', periods=n)[i]
FallbackDate == DateOrdinal(2024, 8, 29)
FallbackDateRange(i) == FallbackDate + (i - 1)

(***************************************************************************)
(* Quotients                                                               *)
(***************************************************************************)
RECURSIVE GCD(_, _)
GCD(a, b) == IF b = 0 THEN a ELSE GCD(b, a % b)

\* the quotient n / d (n, d >= 0) in lowest terms; n / 0 is inf, 0 / 0 is NaN
Quot(n, d) ==
    IF n = 0 /\ d = 0 THEN [n |-> 0, d |-> 0]
    ELSE [n |-> n \div GCD(n, d), d |-> d \div GCD(n, d)]

\* (ScoreEarned / Max) * 100
Percentage(earned, max) == Quot(earned * 100, max)

\* x >= k for a quotient x (inf >= k holds, NaN >= k does not)
AtLeast(x, k) == IF x.d = 0 THEN x.n > 0 ELSE x.n >= k * x.d

(***************************************************************************)
(* The CSV files: the documented column sets and the data they hold        *)
(***************************************************************************)
CsvFiles ==
    {"DimStudent.csv", "DimDate.csv", "DimAssessment.csv", "DimCategory.csv",
     "DimCourse.csv", "DimInstructor.csv", "FactEnrollment.csv",
     "FactAssessmentPerformance.csv"}

StudentCols == {"StudentKey", "StudentName", "MembershipType", "RegistrationDate"}
CourseCols == {"CourseKey", "CourseTitle", "Level", "CreatedDate"}
EnrollmentCols ==
    {"EnrollmentKey", "StudentKey", "CourseKey", "InstructorKey", "CategoryKey",
     "EnrollmentDateKey", "CompletionDateKey", "CoursePrice",
     "ProgressPercentage", "DaysToComplete", "CompletionStatus", "PaymentStatus"}
PerformanceCols ==
    {"PerformanceKey", "StudentKey", "CourseKey", "AssessmentKey",
     "SubmissionDateKey", "ScoreEarned", "MaxPossibleScore", "TimeSpentMinutes",
     "AttemptsCount", "IsCompleted"}

Cycle(seq, i) == seq[((i - 1) % Len(seq)) + 1]

DimStudentRows ==
    << [StudentKey |-> 1, StudentName |-> "Asha", MembershipType |-> "Premium",
        RegistrationDate |-> 20240101],
       [StudentKey |-> 2, StudentName |-> "Ben", MembershipType |-> "Free",
        RegistrationDate |-> 20240102] >>

DimCourseRows ==
    << [CourseKey |-> 1, CourseTitle |-> "Python Basics", Level |-> "Beginner",
        CreatedDate |-> 20231201],
       [CourseKey |-> 2, CourseTitle |-> "Data Analysis", Level |-> "Advanced",
        CreatedDate |-> 20231202] >>

\* row i of the fact data a FactEnrollment.csv is cut from: student 3 and
\* course 3 are in no dimension table, completion key 0 is no date
FactEnrollmentRow(i) ==
    [EnrollmentKey |-> i,
     StudentKey |-> Cycle(<<1, 2, 3>>, i),
     CourseKey |-> Cycle(<<2, 3, 1>>, i),
     InstructorKey |-> 1,
     CategoryKey |-> Cycle(<<1, 2>>, i),
     EnrollmentDateKey |-> Cycle(<<20240829, 20240831, 20240902>>, i),
     CompletionDateKey |-> Cycle(<<20240930, 0, 0>>, i),
     CoursePrice |-> Cycle(<<9999, 14999>>, i),
     ProgressPercentage |-> Cycle(<<10000, 4050, 1000>>, i),
     DaysToComplete |-> Cycle(<<32, 0, 0>>, i),
     CompletionStatus |-> Cycle(<<"Completed", "In Progress", "Dropped">>, i),
     PaymentStatus |-> "Paid"]

\* row i of the fact data a FactAssessmentPerformance.csv is cut from
FactPerformanceRow(i) ==
    [PerformanceKey |-> i,
     StudentKey |-> Cycle(<<1, 2, 3>>, i),
     CourseKey |-> Cycle(<<2, 3, 1>>, i),
     AssessmentKey |-> Cycle(<<1, 2>>, i),
     SubmissionDateKey |-> Cycle(<<20240829, 20240830, 20240902>>, i),
     ScoreEarned |-> Cycle(<<7, 10, 0>>, i),
     MaxPossibleScore |-> 10,
     TimeSpentMinutes |-> Cycle(<<30, 45, 60>>, i),
     AttemptsCount |-> Cycle(<<1, 2>>, i),
     IsCompleted |-> 1]

\* the values an edit of the fact file writes into a score cell
ScoreChoices == {0, 10}

\* date keys that name no calendar day
BadDateKeys == {20240230, 20241301}

\* columns of a loaded file that may be absent from it
DropChoices ==
    { <<"DimStudent.csv", "StudentName">>,
      <<"DimCourse.csv", "Level">>,
      <<"FactEnrollment.csv", "StudentKey">>,
      <<"FactEnrollment.csv", "EnrollmentDateKey">>,
      <<"FactEnrollment.csv", "CompletionDateKey">>,
      <<"FactAssessmentPerformance.csv", "SubmissionDateKey">>,
      <<"FactAssessmentPerformance.csv", "MaxPossibleScore">> }

Disk(avail, student, course, enrollment, performance) ==
    [available |-> avail,
     tables |-> [f \in {"DimStudent.csv", "DimCourse.csv", "FactEnrollment.csv",
                        "FactAssessmentPerformance.csv"} |->
                    CASE f = "DimStudent.csv" -> student
                      [] f = "DimCourse.csv" -> course
                      [] f = "FactEnrollment.csv" -> enrollment
                      [] OTHER -> performance],
     edits |-> 0]

StudentFile == Table(StudentCols, DimStudentRows)
CourseFile == Table(CourseCols, DimCourseRows)
EnrollmentFile(n) == Table(EnrollmentCols, [i \in 1..n |-> FactEnrollmentRow(i)])
PerformanceFile(n) == Table(PerformanceCols, [i \in 1..n |-> FactPerformanceRow(i)])

FullDisk ==
    Disk(CsvFiles, StudentFile, CourseFile,
         EnrollmentFile(MaxFactRows), PerformanceFile(MaxFactRows))

\* the table without some of its columns
DropColumns(t, cs) == Project(t, t.cols \ cs)
DropColumn(t, c) == DropColumns(t, {c})

\* the file with cell c of row i set to v
SetCell(t, i, c, v) ==
    Table(t.cols, [t.rows EXCEPT ![i] = [t.rows[i] EXCEPT ![c] = v]])

\* the directories the model starts from
DiskChoices ==
    \* all eight files, documented columns, fact files of 0..MaxFactRows rows
    { Disk(CsvFiles, StudentFile, CourseFile, EnrollmentFile(n), PerformanceFile(m)) :
        n \in 0..MaxFactRows, m \in 0..MaxFactRows }
    \* one file missing
    \cup { [FullDisk EXCEPT !.available = CsvFiles \ {f}] : f \in CsvFiles }
    \* one column absent from a file
    \cup { [FullDisk EXCEPT !.tables[dc[1]] = DropColumn(@, dc[2])] : dc \in DropChoices }
    \* a date key that cannot be converted
    \cup { [FullDisk EXCEPT !.tables["FactEnrollment.csv"] =
                SetCell(@, 1, "EnrollmentDateKey", k)] : k \in BadDateKeys }
    \cup { [FullDisk EXCEPT !.tables["FactAssessmentPerformance.csv"] =
                SetCell(@, 1, "SubmissionDateKey", k)] : k \in BadDateKeys }
    \* a dimension key that is not unique
    \cup { [FullDisk EXCEPT !.tables["DimStudent.csv"] =
                Table(StudentCols, Append(DimStudentRows,
                    [StudentKey |-> 1, StudentName |-> "Asha B", MembershipType |-> "Free",
                     RegistrationDate |-> 20240103]))],
           [FullDisk EXCEPT !.tables["DimCourse.csv"] =
                Table(CourseCols, Append(DimCourseRows,
                    [CourseKey |-> 2, CourseTitle |-> "Data Analysis II",
                     Level |-> "Intermediate", CreatedDate |-> 20231203]))] }

(***************************************************************************)
(* load_sample_data: the synthetic tables.  The columns drawn from         *)
(* np.random after np.random.seed(42) hold the values that generator       *)
(* yields, in the order the code draws them.                               *)
(***************************************************************************)
SampleEnrollmentRows == 20
SamplePerformanceRows == 30

SampleStudentNames ==
    << "Student_1", "Student_2", "Student_3", "Student_4", "Student_5",
       "Student_6", "Student_7", "Student_8", "Student_9", "Student_10",
       "Student_11", "Student_12", "Student_13", "Student_14", "Student_15",
       "Student_16", "Student_17", "Student_18", "Student_19", "Student_20" >>
SampleCourses ==
    << "Python Basics", "Data Analysis", "Web Design", "Business Strategy",
       "Digital Marketing" >>
SampleCategories ==
    << "Programming", "Data Science", "Design", "Business", "Marketing" >>
SampleInstructors ==
    << "Dr. Smith", "Prof. Johnson", "Ms. Lee", "Mr. Brown", "Dr. Wilson" >>
SamplePrices == << 9999, 14999, 7999, 19999, 8999 >>
SampleLevels == << "Beginner", "Intermediate", "Advanced" >>

\* np.random.uniform(20, 100, 20), in hundredths
SampleProgress ==
    << 4996, 9605, 7855, 6789, 3248, 3247, 2464, 8929, 6808, 7664,
       2164, 9759, 8659, 3698, 3454, 3467, 4433, 6198, 5455, 4329 >>
\* np.random.choice(['Completed', 'In Progress', 'Dropped'], 20)
SampleStatus ==
    << "Dropped", "Dropped", "In Progress", "Dropped", "In Progress",
       "In Progress", "Dropped", "In Progress", "Dropped", "Dropped",
       "Completed", "Dropped", "Completed", "Dropped", "Dropped",
       "Completed", "Completed", "Dropped", "In Progress", "Completed" >>
\* np.random.randint(15, 90, 20)
SampleDays ==
    << 74, 28, 23, 67, 16, 74, 85, 58, 22, 61,
       49, 50, 64, 18, 16, 20, 68, 18, 68, 77 >>
\* np.random.randint(1, 21), thirty times
SampleAssessedStudent ==
    << 18, 12, 2, 10, 4, 14, 16, 15, 8, 14,
       8, 16, 13, 18, 15, 13, 9, 15, 13, 1,
       7, 9, 1, 12, 8, 11, 19, 17, 8, 3 >>
\* np.random.choice of the five course titles, 30 (as indices of SampleCourses)
SampleAssessedCourse ==
    << 3, 1, 3, 5, 2, 2, 1, 4, 1, 4,
       2, 1, 5, 3, 4, 3, 3, 1, 3, 5,
       3, 1, 5, 2, 3, 1, 2, 2, 4, 5 >>
\* np.random.choice(['Easy', 'Medium', 'Hard'], 30)
SampleDifficulty ==
    << "Hard", "Hard", "Hard", "Easy", "Easy", "Medium",
       "Easy", "Hard", "Hard", "Easy", "Hard", "Hard",
       "Easy", "Easy", "Hard", "Hard", "Hard", "Medium",
       "Medium", "Medium", "Easy", "Medium", "Easy", "Easy",
       "Medium", "Medium", "Medium", "Hard", "Medium", "Hard" >>
\* np.random.uniform(60, 100, 30), in hundredths
SampleScore ==
    << 9584, 7272, 6440, 6911, 7708, 9272, 9442, 6027, 8042, 7669,
       6888, 6479, 7350, 9771, 7292, 8075, 8812, 7454, 9887, 9849,
       7007, 7988, 7203, 7139, 6147, 8438, 8010, 6205, 7114, 9633 >>
\* np.random.randint(15, 180, 30)
SampleTimeSpent ==
    << 161, 140, 144, 67, 174, 174, 82, 137, 159, 52,
       38, 83, 130, 112, 153, 158, 111, 138, 84, 107,
       17, 162, 178, 161, 104, 161, 162, 110, 66, 175 >>
\* np.random.randint(1, 4, 30)
SampleAttempts ==
    << 3, 2, 1, 3, 1, 1, 2, 3, 3, 2,
       2, 3, 3, 2, 1, 1, 2, 1, 2, 1,
       1, 3, 3, 1, 1, 3, 3, 3, 2, 1 >>

\* [100] * 30, in hundredths
SampleMaxScore == 10000

\* pd.date_range('2024-01-01', periods=20, freq='W')[i]: the Sundays from 2024-01-07
SampleEnrollmentDate(i) == DateOrdinal(2024, 1, 7) + 7 * (i - 1)
\* pd.date_range('2024-01-15', periods=30, freq='5D')[i]
SampleSubmissionDate(i) == DateOrdinal(2024, 1, 15) + 5 * (i - 1)

SampleEnrollmentRow(i) ==
    [EnrollmentKey |-> i,
     StudentName |-> SampleStudentNames[i],
     CourseTitle |-> Cycle(SampleCourses, i),
     CategoryName |-> Cycle(SampleCategories, i),
     InstructorName |-> Cycle(SampleInstructors, i),
     MembershipType |-> Cycle(<<"Premium", "Free">>, i),
     EnrollmentDate |-> SampleEnrollmentDate(i),
     CoursePrice |-> Cycle(SamplePrices, i),
     ProgressPercentage |-> SampleProgress[i],
     CompletionStatus |-> SampleStatus[i],
     CourseLevel |-> Cycle(SampleLevels, i),
     DaysToComplete |-> SampleDays[i]]

SamplePerformanceRow(i) ==
    [PerformanceKey |-> i,
     StudentName |-> SampleStudentNames[SampleAssessedStudent[i]],
     CourseTitle |-> SampleCourses[SampleAssessedCourse[i]],
     AssessmentTitle |-> Cycle(<<"Quiz 1", "Assignment 1", "Project", "Final Exam">>, i),
     AssessmentType |-> Cycle(<<"Quiz", "Assignment", "Project", "Exam">>, i),
     DifficultyLevel |-> SampleDifficulty[i],
     ScoreEarned |-> SampleScore[i],
     MaxScore |-> SampleMaxScore,
     TimeSpentMinutes |-> SampleTimeSpent[i],
     AttemptsCount |-> SampleAttempts[i],
     SubmissionDate |-> SampleSubmissionDate(i)]

RowsTable(rows) == Table(IF rows = <<>> THEN {} ELSE DOMAIN rows[1], rows)

\* the column performance_df['ScorePercentage'] of load_sample_data
SampleScorePercentage(row) == Percentage(row.ScoreEarned, row.MaxScore)

\* load_sample_data(): (enrollment_df, performance_df)
LoadSampleData ==
    [enrollment_df |->
        RowsTable([i \in 1..SampleEnrollmentRows |-> SampleEnrollmentRow(i)]),
     performance_df |->
        SetColumn(RowsTable([i \in 1..SamplePerformanceRows |-> SamplePerformanceRow(i)]),
                  "ScorePercentage", LAMBDA i, row : SampleScorePercentage(row))]

(***************************************************************************)
(* load_data_from_csv                                                      *)
(***************************************************************************)
MsgEssential == "Essential files missing. Using sample data."
MsgCritical == "Critical error loading data"
MsgSampleDates == "Could not convert date keys. Using sample dates."

\* what a load returns: the two tables, and what it told the user
Loaded(tables, not_found, messages) ==
    [enrollment_df |-> tables.enrollment_df,
     performance_df |-> tables.performance_df,
     not_found |-> not_found,
     messages |-> messages]

\* pd.to_datetime(df[key].astype(str), format='%Y%m%d') succeeds
DateKeysConvert(t, key) ==
    /\ key \in t.cols
    /\ \A i \in 1..Len(t.rows) : DateKeyValid(t.rows[i][key])

\* the same with errors='coerce': a key that is no date becomes NaT
CoerceDateKey(k) == IF DateKeyValid(k) THEN ParseDateKey(k) ELSE NaT

\* a slip: the quotient without the factor 100
CsvScoreFraction(row) == Quot(row.ScoreEarned, row.MaxPossibleScore)

\* the column performance_df['ScorePercentage'] of load_data_from_csv
CsvScorePercentage(row) == Percentage(row.ScoreEarned, row.MaxPossibleScore)

\* lines 128-132: the score percentage (a missing score column raises
\* KeyError, caught by the outer except) and the return of the two tables
LoadScores(e3, p3, not_found, messages) ==
    IF {"ScoreEarned", "MaxPossibleScore"} \subseteq p3.cols
    THEN Loaded([enrollment_df |-> e3,
                 performance_df |->
                    SetColumn(p3, "ScorePercentage",
                              LAMBDA i, row : CsvScorePercentage(row))],
                not_found, messages)
    ELSE Loaded(LoadSampleData, not_found, messages \cup {MsgCritical})

\* what the try block of lines 119-122 had assigned to enrollment_df when a
\* later conversion raised
PartlyConverted(e2) ==
    IF ~DateKeysConvert(e2, "EnrollmentDateKey") THEN e2
    ELSE IF "CompletionDateKey" \notin e2.cols
    THEN SetColumn(e2, "EnrollmentDate",
                   LAMBDA i, row : ParseDateKey(row.EnrollmentDateKey))
    ELSE SetColumn(SetColumn(e2, "EnrollmentDate",
                             LAMBDA i, row : ParseDateKey(row.EnrollmentDateKey)),
                   "CompletionDate",
                   LAMBDA i, row : CoerceDateKey(row.CompletionDateKey))

\* lines 118-126: the date keys become dates; when a conversion raises, the
\* two date columns are set to a range of days from 2024-08-29
LoadDates(e2, p2, not_found) ==
    IF /\ DateKeysConvert(e2, "EnrollmentDateKey")
       /\ "CompletionDateKey" \in e2.cols
       /\ DateKeysConvert(p2, "SubmissionDateKey")
    THEN LoadScores(PartlyConverted(e2),
                    SetColumn(p2, "SubmissionDate",
                              LAMBDA i, row : ParseDateKey(row.SubmissionDateKey)),
                    not_found, {})
    ELSE LoadScores(SetColumn(PartlyConverted(e2), "EnrollmentDate",
                              LAMBDA i, row : FallbackDateRange(i)),
                    SetColumn(p2, "SubmissionDate",
                              LAMBDA i, row : FallbackDateRange(i)),
                    not_found, {MsgSampleDates})

\* lines 113-116: the course merges, made when DimCourse.csv was loaded (a
\* missing column raises KeyError)
LoadCourses(d, e1, p0, not_found) ==
    IF "DimCourse.csv" \notin d.available THEN LoadDates(e1, p0, not_found)
    ELSE IF /\ {"CourseKey", "CourseTitle", "Level"} \subseteq d.tables["DimCourse.csv"].cols
            /\ "CourseKey" \in e1.cols
            /\ "CourseKey" \in p0.cols
    THEN LoadDates(
             MergeLeft(e1, Project(d.tables["DimCourse.csv"],
                                   {"CourseKey", "CourseTitle", "Level"}), "CourseKey"),
             MergeLeft(p0, Project(d.tables["DimCourse.csv"],
                                   {"CourseKey", "CourseTitle", "Level"}), "CourseKey"),
             not_found)
    ELSE Loaded(LoadSampleData, not_found, {MsgCritical})

\* lines 104-111: the copies of the fact tables (.copy() of a file that was
\* not loaded raises) and the student merge
LoadStudents(d, not_found) ==
    IF /\ "FactAssessmentPerformance.csv" \in d.available
       /\ {"StudentKey", "StudentName", "MembershipType"}
              \subseteq d.tables["DimStudent.csv"].cols
       /\ "StudentKey" \in d.tables["FactEnrollment.csv"].cols
    THEN LoadCourses(d,
             MergeLeft(d.tables["FactEnrollment.csv"],
                       Project(d.tables["DimStudent.csv"],
                               {"StudentKey", "StudentName", "MembershipType"}),
                       "StudentKey"),
             d.tables["FactAssessmentPerformance.csv"],
             not_found)
    ELSE Loaded(LoadSampleData, not_found, {MsgCritical})

\* load_data_from_csv() in the directory d
LoadDataFromCsv(d) ==
    IF "DimStudent.csv" \in d.available /\ "FactEnrollment.csv" \in d.available
    THEN LoadStudents(d, CsvFiles \ d.available)
    ELSE Loaded(LoadSampleData, CsvFiles \ d.available, {MsgEssential})

(***************************************************************************)
(* create_sidebar_filters                                                  *)
(***************************************************************************)
MinOf(S) == CHOOSE x \in S : \A y \in S : x <= y
MaxOf(S) == CHOOSE x \in S : \A y \in S : x >= y

\* min_date, max_date: the ends of the enrollment dates, or the fallback day
MinDate(df) ==
    IF "EnrollmentDate" \in df.cols THEN MinOf(Unique(df, "EnrollmentDate"))
    ELSE FallbackDate
MaxDate(df) ==
    IF "EnrollmentDate" \in df.cols THEN MaxOf(Unique(df, "EnrollmentDate"))
    ELSE FallbackDate

\* the options of a multiselect: the column's values, [] without the column
OptionsOf(df, c) == IF c \in df.cols THEN Unique(df, c) ELSE {}

FilterColumns == <<"CategoryName", "MembershipType", "CourseLevel", "CompletionStatus">>

\* the state of the widgets on a first run: the whole range, every option
\* (an empty table gets no widgets)
DefaultWidgets(df) ==
    IF Len(df.rows) = 0
    THEN [date_input |-> <<>>, multiselect |-> [k \in 1..4 |-> {}]]
    ELSE [date_input |-> <<MinDate(df), MaxDate(df)>>,
          multiselect |-> [k \in 1..4 |-> OptionsOf(df, FilterColumns[k])]]

\* create_sidebar_filters(enrollment_df, performance_df), w being what the
\* widgets return: (date_range, categories, membership types, levels, statuses)
CreateSidebarFilters(df, w) ==
    IF Len(df.rows) = 0
    THEN [date_range |-> <<FallbackDate, FallbackDate>>,
          lists |-> [k \in 1..4 |-> {}]]
    ELSE [date_range |->
              IF Len(w.date_input) = 1 THEN <<w.date_input[1], w.date_input[1]>>
              ELSE IF Len(w.date_input) = 0 THEN <<MinDate(df), MaxDate(df)>>
              ELSE w.date_input,
          lists |-> [k \in 1..4 |->
              IF OptionsOf(df, FilterColumns[k]) # {} THEN w.multiselect[k] ELSE {}]]

(***************************************************************************)
(* filter_data                                                             *)
(***************************************************************************)
\* the date restriction; a table without the date column makes it raise and
\* the restriction is skipped
DateFilter(rows, cols, date_col, date_range) ==
    IF date_col \in cols
    THEN SelectRows(rows, LAMBDA r : /\ r[date_col] # NaT
                                     /\ r[date_col] >= date_range[1]
                                     /\ r[date_col] <= date_range[2])
    ELSE rows

\* a restriction that cannot be evaluated leaves no row, in place of every row
IsinFilterNarrowing(rows, cols, c, selected) ==
    IF selected # {} /\ c \in cols
    THEN SelectRows(rows, LAMBDA r : r[c] \in selected)
    ELSE <<>>

\* .head(1) after the mask: only the first row with a selected value is kept
IsinFilterFirst(rows, cols, c, selected) ==
    IF selected # {} /\ c \in cols
    THEN IF \E i \in 1..Len(rows) : rows[i][c] \in selected
         THEN << SelectRows(rows, LAMBDA r : r[c] \in selected)[1] >>
         ELSE <<>>
    ELSE rows

\* one isin restriction, applied when the list is non-empty and the column exists
IsinFilter(rows, cols, c, selected) ==
    IF selected # {} /\ c \in cols
    THEN SelectRows(rows, LAMBDA r : r[c] \in selected)
    ELSE rows

\* filter_data(df, date_col, date_range, categories, membership_types,
\*             course_levels, completion_statuses); None is the empty list
FilterData(df, date_col, date_range, categories, membership_types, course_levels, completion_statuses) ==
    IF Len(df.rows) = 0 THEN df
    ELSE LET r0 == DateFilter(df.rows, df.cols, date_col, date_range)
             r1 == IsinFilter(r0, df.cols, "CategoryName", categories)
             r2 == IsinFilter(r1, df.cols, "MembershipType", membership_types)
             r3 == IsinFilter(r2, df.cols, "CourseLevel", course_levels)
             r4 == IsinFilter(r3, df.cols, "CompletionStatus", completion_statuses)
         IN  Table(df.cols, r4)

(***************************************************************************)
(* The three views.  A view ends "warning" (empty table, nothing shown),   *)
(* "rendered", or "error" on the first column it reads that the table      *)
(* lacks (KeyError); metrics are the KPIs it showed up to there, divisors   *)
(* the row counts it divided by.                                           *)
(***************************************************************************)
SuccessThreshold == 70

View(status, metrics, divisors, error) ==
    [status |-> status, metrics |-> metrics, divisors |-> divisors, error |-> error]

ViewNotRun == View("not run", <<>>, {}, "")
ViewWarning == View("warning", <<>>, {}, "")

\* the first column of the reading order that the table lacks, "" when none
RECURSIVE FirstMissing(_, _)
FirstMissing(reads, cols) ==
    IF reads = <<>> THEN ""
    ELSE IF Head(reads) \notin cols THEN Head(reads)
    ELSE FirstMissing(Tail(reads), cols)

\* the KPIs whose columns are read before the failing one
ShownBefore(kpis, reads, missing) ==
    {k \in DOMAIN kpis :
        \A j \in 1..Len(reads) :
            reads[j] = missing => \E i \in 1..(j - 1) : reads[i] = kpis[k]}

\* (df['CompletionStatus'] == 'Completed').sum() / len(df) * 100
CompletionRate(rows) ==
    Quot(CountRows(rows, LAMBDA r : r.CompletionStatus = "Completed") * 100, Len(rows))

\* > 70 in place of >= 70
SuccessRateAbove(rows) ==
    Quot(CountRows(rows, LAMBDA r :
            IF r.ScorePercentage.d = 0 THEN r.ScorePercentage.n > 0
            ELSE r.ScorePercentage.n > SuccessThreshold * r.ScorePercentage.d) * 100,
         Len(rows))

\* (df['ScorePercentage'] >= 70).sum() / len(df) * 100
SuccessRate(rows) ==
    Quot(CountRows(rows, LAMBDA r : AtLeast(r.ScorePercentage, SuccessThreshold)) * 100,
         Len(rows))

\* series.mean() of a whole-number column
MeanOf(rows, c) == Quot(SumCol(rows, c), Len(rows))

\* the view without its guard
NoGuard(df) == FALSE

\* has the view an empty table to warn about (and return)
EnrollmentGuard(df) == Len(df.rows) = 0
PerformanceGuard(df) == Len(df.rows) = 0
IntegratedGuard(e, p) == Len(e.rows) = 0 \/ Len(p.rows) = 0

EnrollmentReads ==
    <<"CoursePrice", "ProgressPercentage", "CompletionStatus", "CategoryName",
      "MembershipType", "EnrollmentDate", "CourseTitle", "EnrollmentKey">>

\* enrollment_dashboard(enrollment_df)
EnrollmentDashboard(df) ==
    IF EnrollmentGuard(df) THEN ViewWarning
    ELSE LET missing == FirstMissing(EnrollmentReads, df.cols)
             has(c) == c \in df.cols
             all == [total_enrollments |-> Quot(Len(df.rows), 1),
                     total_revenue |->
                        IF has("CoursePrice") THEN Quot(SumCol(df.rows, "CoursePrice"), 1)
                        ELSE Quot(0, 0),
                     avg_progress |->
                        IF has("ProgressPercentage")
                        THEN MeanOf(df.rows, "ProgressPercentage") ELSE Quot(0, 0),
                     completion_rate |->
                        IF has("CompletionStatus") THEN CompletionRate(df.rows)
                        ELSE Quot(0, 0)]
             reads == [total_enrollments |-> "", total_revenue |-> "CoursePrice",
                       avg_progress |-> "ProgressPercentage",
                       completion_rate |-> "CompletionStatus"]
             shown == {k \in DOMAIN all :
                          \/ reads[k] = ""
                          \/ missing = ""
                          \/ k \in ShownBefore(reads, EnrollmentReads, missing)}
         IN  View(IF missing = "" THEN "rendered" ELSE "error",
                  [k \in shown |-> all[k]],
                  IF shown \cap {"avg_progress", "completion_rate"} # {}
                  THEN {Len(df.rows)} ELSE {},
                  missing)

PerformanceReads ==
    <<"ScorePercentage", "TimeSpentMinutes", "AssessmentType", "DifficultyLevel",
      "AttemptsCount", "PerformanceKey">>

\* performance_dashboard(performance_df)
PerformanceDashboard(df) ==
    IF PerformanceGuard(df) THEN ViewWarning
    ELSE LET missing == FirstMissing(PerformanceReads, df.cols)
             has(c) == c \in df.cols
             all == [total_submissions |->
                        IF has("ScorePercentage") THEN Quot(Len(df.rows), 1)
                        ELSE Quot(0, 0),
                     avg_time |->
                        IF has("TimeSpentMinutes")
                        THEN MeanOf(df.rows, "TimeSpentMinutes") ELSE Quot(0, 0),
                     success_rate |->
                        IF has("ScorePercentage") THEN SuccessRate(df.rows)
                        ELSE Quot(0, 0)]
             reads == [total_submissions |-> "ScorePercentage",
                       avg_time |-> "TimeSpentMinutes",
                       success_rate |-> "TimeSpentMinutes"]
             shown == {k \in DOMAIN all :
                          \/ missing = ""
                          \/ k \in ShownBefore(reads, PerformanceReads, missing)}
         IN  View(IF missing = "" THEN "rendered" ELSE "error",
                  [k \in shown |-> all[k]],
                  IF shown \cap {"avg_time", "success_rate"} # {}
                  THEN {Len(df.rows)} ELSE {},
                  missing)

\* on=['StudentName'] in place of both keys: rows of different courses pair up
MergeOnStudent(left, right) ==
    Table(left.cols \cup right.cols,
          Flatten([i \in 1..Len(left.rows) |->
              [j \in 1..Len(SelectRows(right.rows,
                        LAMBDA r : r.StudentName = left.rows[i].StudentName)) |->
                  [k \in left.cols \cup right.cols |->
                      IF k \in left.cols THEN left.rows[i][k]
                      ELSE SelectRows(right.rows,
                              LAMBDA r : r.StudentName = left.rows[i].StudentName)[j][k]]]]))

\* pd.merge(left, right, on=['StudentName', 'CourseTitle'], how='inner'):
\* every pair of a left and a right row that agree on both keys
MergeInner(left, right) ==
    LET cols == left.cols \cup right.cols
        Pairs(l) ==
            LET hits == SelectRows(right.rows,
                            LAMBDA r : /\ r.StudentName = l.StudentName
                                       /\ r.CourseTitle = l.CourseTitle)
            IN  [j \in 1..Len(hits) |->
                    [k \in cols |-> IF k \in DOMAIN l THEN l[k] ELSE hits[j][k]]]
    IN  Table(cols, Flatten([i \in 1..Len(left.rows) |-> Pairs(left.rows[i])]))

IntegratedEnrollmentCols ==
    {"StudentName", "CourseTitle", "MembershipType", "ProgressPercentage",
     "CompletionStatus"}
IntegratedPerformanceCols ==
    {"StudentName", "CourseTitle", "ScorePercentage", "AssessmentType"}

\* integrated_df of integrated_analysis
IntegratedDf(e, p) ==
    MergeInner(Project(e, IntegratedEnrollmentCols),
               Project(p, IntegratedPerformanceCols))

\* integrated_df.groupby('MembershipType').apply(success rate): one rate for
\* each membership type of the integrated table (groupby drops the null key)
MembershipGroup(integrated, m) ==
    SelectRows(integrated.rows, LAMBDA r : r.MembershipType = m)

SuccessByMembership(integrated) ==
    [m \in Unique(integrated, "MembershipType") \ {NaN} |->
        SuccessRate(MembershipGroup(integrated, m))]

\* integrated_df.groupby('MembershipType').agg({'ProgressPercentage': 'mean', ...}):
\* the mean progress over the integrated rows of each membership type
ProgressByMembership(integrated) ==
    [m \in Unique(integrated, "MembershipType") \ {NaN} |->
        MeanOf(MembershipGroup(integrated, m), "ProgressPercentage")]

\* integrated_analysis(enrollment_df, performance_df)
IntegratedAnalysis(e, p) ==
    IF IntegratedGuard(e, p) THEN ViewWarning @@ [integrated_rows |-> <<>>]
    ELSE IF ~(IntegratedEnrollmentCols \subseteq e.cols)
    THEN View("error", <<>>, {},
              CHOOSE c \in IntegratedEnrollmentCols \ e.cols : TRUE)
            @@ [integrated_rows |-> <<>>]
    ELSE IF ~(IntegratedPerformanceCols \subseteq p.cols)
    THEN View("error", <<>>, {},
              CHOOSE c \in IntegratedPerformanceCols \ p.cols : TRUE)
            @@ [integrated_rows |-> <<>>]
    ELSE LET integrated == IntegratedDf(e, p)
             rates == SuccessByMembership(integrated)
         IN  View("rendered", rates,
                  {Len(MembershipGroup(integrated, m)) : m \in DOMAIN rates}, "")
                @@ [integrated_rows |-> integrated.rows,
                    avg_progress |-> ProgressByMembership(integrated)]

SummaryReads == <<"StudentName", "CourseTitle", "CategoryName">>

\* the data summary at the end of main: the counts of distinct values
DataSummary(enrollment_df, performance_df) ==
    LET missing == FirstMissing(SummaryReads, enrollment_df.cols)
    IN  IF missing # "" THEN View("error", <<>>, {}, missing)
        ELSE View("rendered",
                  [enrollments |-> Quot(Len(enrollment_df.rows), 1),
                   assessments |-> Quot(Len(performance_df.rows), 1),
                   students |-> Quot(NUnique(enrollment_df, "StudentName"), 1),
                   courses |-> Quot(NUnique(enrollment_df, "CourseTitle"), 1),
                   categories |-> Quot(NUnique(enrollment_df, "CategoryName"), 1)],
                  {}, "")

(***************************************************************************)
(* main: one run of the script                                             *)
(***************************************************************************)
NoTable == Table({}, <<>>)

\* st.session_state when a session starts (data_loaded = False, no tables)
FreshSession ==
    [data_loaded |-> FALSE, enrollment_df |-> NoTable, performance_df |-> NoTable]

NoRun ==
    [ran |-> FALSE, loaded_now |-> FALSE, not_found |-> {}, messages |-> {},
     widgets |-> [date_input |-> <<>>, multiselect |-> [k \in 1..4 |-> {}]],
     date_range |-> <<FallbackDate, FallbackDate>>,
     lists |-> [k \in 1..4 |-> {}],
     filtered_enrollment |-> NoTable, filtered_performance |-> NoTable,
     enrollment_view |-> ViewNotRun, performance_view |-> ViewNotRun,
     integrated_view |-> ViewNotRun @@ [integrated_rows |-> <<>>],
     summary_view |-> ViewNotRun, error |-> ""]

\* load_data_from_csv() under @st.cache_data: the cached result when there is one
CachedLoad == IF cache # <<>> THEN cache[1] ELSE LoadDataFromCsv(disk)

\* the load step of main: only when data_loaded is not set
SessionAfterLoad ==
    IF session_state.data_loaded THEN session_state
    ELSE [data_loaded |-> TRUE,
          enrollment_df |-> CachedLoad.enrollment_df,
          performance_df |-> CachedLoad.performance_df]

\* the days the model lets the user pick in the date input
DateChoices(df) ==
    {MinDate(df), MinDate(df) + 1, MaxDate(df)} \cap (MinDate(df)..MaxDate(df))

\* what st.date_input returns: one day while a range is being picked, or a range
DateInputs(df) ==
    {<<d>> : d \in DateChoices(df)}
    \cup {r \in DateChoices(df) \X DateChoices(df) : r[1] < r[2]}

\* how many options the user has unticked
Deselected(df, w) ==
    Cardinality({<<k, o>> \in (1..4) \X UNION {OptionsOf(df, FilterColumns[j]) : j \in 1..4} :
                    o \in OptionsOf(df, FilterColumns[k]) \ w.multiselect[k]})

\* the widget states one user interaction away from w
Interactions(df, w) ==
    {[w EXCEPT !.date_input = di] : di \in DateInputs(df)}
    \cup UNION {{[w EXCEPT !.multiselect[ko[1]] = @ \ {ko[2]}],
                 [w EXCEPT !.multiselect[ko[1]] = @ \cup {ko[2]}]} :
                    ko \in {x \in (1..4) \X UNION {OptionsOf(df, FilterColumns[j]) : j \in 1..4} :
                               x[2] \in OptionsOf(df, FilterColumns[x[1]])}}

\* the widget state a run starts from: the session's, the defaults on a first run
CurrentWidgets(df) == IF run.ran THEN run.widgets ELSE DefaultWidgets(df)

\* dt.to_period('M'): the month of a day, counted from January 2024
MonthOf(d) ==
    IF d = NaT THEN NaT
    ELSE CHOOSE k \in 0..23 :
            /\ DateOrdinal(2024 + (k \div 12), (k % 12) + 1, 1) <= d
            /\ d < DateOrdinal(2024 + ((k + 1) \div 12), ((k + 1) % 12) + 1, 1)

\* filter_data without line 280: it filters the table it was given
NeverCopies(df) == TRUE

\* does filter_data return the very table it was given (line 277, an empty
\* table) and not a filtered copy of it (line 280)
FilterDataReturnsInput(df) == Len(df.rows) = 0

\* does enrollment_dashboard reach line 380, where it assigns the column
\* EnrollmentMonth to the table it was given
AddsEnrollmentMonth(df) ==
    /\ ~EnrollmentGuard(df)
    /\ FirstMissing(EnrollmentReads, df.cols) \in {"", "CourseTitle", "EnrollmentKey"}

\* the stored enrollment table after the views have run: the column is
\* written into it only if the view was handed the stored table itself
StoredAfterViews(stored, filtered) ==
    IF FilterDataReturnsInput(stored) /\ AddsEnrollmentMonth(filtered)
    THEN SetColumn(stored, "EnrollmentMonth", LAMBDA i, row : MonthOf(row.EnrollmentDate))
    ELSE stored

\* the end of a run of main: what it leaves in the session and shows
MainEnds(ss, loads, loaded, w, f, filtered_enrollment, filtered_performance, v1, v2, v3, v4) ==
    /\ session_state' = [ss EXCEPT !.enrollment_df = StoredAfterViews(@, filtered_enrollment)]
    /\ cache' = IF loads /\ cache = <<>> THEN <<loaded>> ELSE cache
    /\ run' = [ran |-> TRUE,
               loaded_now |-> loads,
               not_found |-> IF loads THEN loaded.not_found ELSE {},
               messages |-> IF loads THEN loaded.messages ELSE {},
               widgets |-> w,
               date_range |-> f.date_range,
               lists |-> f.lists,
               filtered_enrollment |-> filtered_enrollment,
               filtered_performance |-> filtered_performance,
               enrollment_view |-> v1,
               performance_view |-> v2,
               integrated_view |-> v3,
               summary_view |-> v4,
               error |-> IF v1.error # "" THEN v1.error
                         ELSE IF v2.error # "" THEN v2.error
                         ELSE IF v3.error # "" THEN v3.error
                         ELSE v4.error]
    /\ UNCHANGED <<disk, call>>

\* lines 645-654: the data summary, reached when no view raised
MainSummary(ss, loads, loaded, w, f, filtered_enrollment, filtered_performance, v1, v2, v3) ==
    MainEnds(ss, loads, loaded, w, f, filtered_enrollment, filtered_performance,
             v1, v2, v3,
             IF v1.error = "" /\ v2.error = "" /\ v3.error = ""
             THEN DataSummary(ss.enrollment_df, ss.performance_df)
             ELSE ViewNotRun)

\* lines 642-643: the third tab
MainIntegrated(ss, loads, loaded, w, f, filtered_enrollment, filtered_performance, v1, v2) ==
    MainSummary(ss, loads, loaded, w, f, filtered_enrollment, filtered_performance,
                v1, v2,
                IF v1.error = "" /\ v2.error = ""
                THEN IntegratedAnalysis(filtered_enrollment, filtered_performance)
                ELSE ViewNotRun @@ [integrated_rows |-> <<>>])

\* lines 636-640: the first two tabs (an exception in a view ends the run)
MainTabs(ss, loads, loaded, w, f, filtered_enrollment, filtered_performance, v1) ==
    MainIntegrated(ss, loads, loaded, w, f, filtered_enrollment, filtered_performance,
                   v1,
                   IF v1.error = "" THEN PerformanceDashboard(filtered_performance)
                   ELSE ViewNotRun)

\* lines 626-631: the two filtered tables
MainFilters(ss, loads, loaded, w, f) ==
    MainTabs(ss, loads, loaded, w, f,
             FilterData(ss.enrollment_df, "EnrollmentDate", f.date_range,
                        f.lists[1], f.lists[2], f.lists[3], f.lists[4]),
             FilterData(ss.performance_df, "SubmissionDate", f.date_range,
                        f.lists[1], {}, {}, {}),
             EnrollmentDashboard(
                 FilterData(ss.enrollment_df, "EnrollmentDate", f.date_range,
                            f.lists[1], f.lists[2], f.lists[3], f.lists[4])))

\* lines 598-624: the load step, when data_loaded is not set, and the sidebar
MainLoads(loads, loaded, w) ==
    MainFilters(IF loads
                THEN [data_loaded |-> TRUE,
                      enrollment_df |-> loaded.enrollment_df,
                      performance_df |-> loaded.performance_df]
                ELSE session_state,
                loads, loaded, w,
                CreateSidebarFilters(IF loads THEN loaded.enrollment_df
                                     ELSE session_state.enrollment_df, w))

\* main(), the widgets returning w
Main(w) == MainLoads(~session_state.data_loaded, CachedLoad, w)

(***************************************************************************)
(* Actions                                                                 *)
(***************************************************************************)
\* the script runs with the widgets as they are (first run of a session, or
\* a rerun that no widget caused)
Rerun == Main(CurrentWidgets(SessionAfterLoad.enrollment_df))

\* the user changes one widget and the script reruns
Interact ==
    /\ run.ran
    /\ Len(session_state.enrollment_df.rows) > 0
    /\ \E w \in Interactions(session_state.enrollment_df, run.widgets) :
          /\ w # run.widgets
          /\ Deselected(session_state.enrollment_df, w) <= MaxDeselected
          /\ Main(w)

\* a score cell of FactAssessmentPerformance.csv is rewritten on disk
EditSourceFacts ==
    /\ disk.edits < MaxEdits
    /\ "FactAssessmentPerformance.csv" \in disk.available
    /\ LET t == disk.tables["FactAssessmentPerformance.csv"]
       IN  \E i \in 1..Len(t.rows), c \in {"ScoreEarned", "MaxPossibleScore"} \cap t.cols,
              v \in ScoreChoices :
                /\ v # t.rows[i][c]
                /\ disk' = [disk EXCEPT
                               !.tables["FactAssessmentPerformance.csv"] = SetCell(t, i, c, v),
                               !.edits = @ + 1]
    /\ UNCHANGED <<cache, session_state, run, call>>

\* the browser opens the app anew: a fresh session_state, the cache stays
NewSession ==
    /\ session_state.data_loaded
    /\ session_state' = FreshSession
    /\ run' = NoRun
    /\ UNCHANGED <<disk, cache, call>>

(***************************************************************************)
(* filter_data called on its own                                           *)
(***************************************************************************)
NoCall ==
    [made |-> FALSE, df |-> NoTable, date_col |-> "", date_range |-> <<0, 0>>,
     lists |-> [k \in 1..4 |-> {}], result |-> NoTable,
     df_after |-> NoTable, again |-> NoTable]

\* the tables of the calls: the first rows of a sample table, some columns left out
FilterTables ==
    { DropColumns(Table(t.cols, SubSeq(t.rows, 1, n)), drop) :
        t \in {LoadSampleData.enrollment_df, LoadSampleData.performance_df},
        n \in 0..MaxFilterRows,
        drop \in {{}, {"EnrollmentDate", "SubmissionDate"}, {"CategoryName"},
                  {"MembershipType", "CourseLevel"}, {"CompletionStatus"}} }

FilterDateCols == {"EnrollmentDate", "SubmissionDate"}
FilterDateRanges ==
    { <<SampleEnrollmentDate(1), SampleEnrollmentDate(2)>>,
      <<SampleEnrollmentDate(2), SampleEnrollmentDate(2)>>,
      <<SampleEnrollmentDate(1) + 1, SampleEnrollmentDate(2) - 1>>,
      <<SampleEnrollmentDate(1), SampleSubmissionDate(SamplePerformanceRows)>> }
\* the selection lists of the calls; the empty one is also None
FilterLists ==
    [k \in 1..4 |->
        CASE k = 1 -> {{}, {"Programming"}, {"Programming", "Design"}}
          [] k = 2 -> {{}, {"Free"}}
          [] k = 3 -> {{}, {"Beginner", "Advanced"}}
          [] OTHER -> {{}, {"Dropped"}}]

\* the calls: every table with every choice of arguments, not yet made
FilterCalls ==
    { [made |-> FALSE, df |-> df, date_col |-> date_col, date_range |-> date_range,
       lists |-> <<c, m, l, st>>, result |-> NoTable,
       df_after |-> NoTable, again |-> NoTable] :
        df \in FilterTables, date_col \in FilterDateCols, date_range \in FilterDateRanges,
        c \in FilterLists[1], m \in FilterLists[2], l \in FilterLists[3],
        st \in FilterLists[4] }

\* filter_data(df, date_col, date_range, ...) runs and returns, and is run
\* once more on its result; it filters a copy (line 280), so df is left as it was
FilterCall ==
    /\ ~call.made
    /\ call' = [call EXCEPT
                   !.made = TRUE,
                   !.result = FilterData(call.df, call.date_col, call.date_range,
                                         call.lists[1], call.lists[2],
                                         call.lists[3], call.lists[4]),
                   !.df_after = call.df,
                   !.again = FilterData(FilterData(call.df, call.date_col, call.date_range,
                                                   call.lists[1], call.lists[2],
                                                   call.lists[3], call.lists[4]),
                                        call.date_col, call.date_range,
                                        call.lists[1], call.lists[2],
                                        call.lists[3], call.lists[4])]
    /\ UNCHANGED <<disk, cache, session_state, run>>

\* the directories the interactive sessions are explored on: the full data,
\* an essential file missing (sample data), a bad date key (sample dates),
\* a one-row and an empty enrollment file
InteractiveDiskChoices ==
    { FullDisk,
      [FullDisk EXCEPT !.available = CsvFiles \ {"DimStudent.csv"}],
      [FullDisk EXCEPT !.tables["FactEnrollment.csv"] =
          SetCell(@, 1, "EnrollmentDateKey", 20240230)],
      Disk(CsvFiles, StudentFile, CourseFile, EnrollmentFile(1), PerformanceFile(MaxFactRows)),
      Disk(CsvFiles, StudentFile, CourseFile, EnrollmentFile(0), PerformanceFile(MaxFactRows)) }

Start(disks, calls) ==
    /\ disk \in disks
    /\ cache = <<>>
    /\ session_state = FreshSession
    /\ run = NoRun
    /\ call \in calls

\* loading: any directory, edited while sessions come and go
Init == Start(DiskChoices, {NoCall})
Next == Rerun \/ EditSourceFacts \/ NewSession
Spec == Init /\ [][Next]_vars

\* one session of a user working the widgets
InitInteractive == Start(InteractiveDiskChoices, {NoCall})
NextInteractive == Rerun \/ Interact
SpecInteractive == InitInteractive /\ [][NextInteractive]_vars

\* filter_data on its own, over the tables and arguments above
InitFilter == Start({FullDisk}, FilterCalls)
NextFilter == FilterCall
SpecFilter == InitFilter /\ [][NextFilter]_vars

(***************************************************************************)
(* Properties                                                              *)
(***************************************************************************)
\* a table load_data_from_csv built from the fact files (the sample tables
\* have no StudentKey column)
FromCsv(t) == "StudentKey" \in t.cols

Hundred == [n |-> 100, d |-> 1]

\* the maximum possible score of a performance row: MaxPossibleScore in the
\* fact data, MaxScore in the sample data
MaxPossibleOf(t, r) ==
    IF "MaxPossibleScore" \in t.cols THEN r.MaxPossibleScore ELSE r.MaxScore

\* x is earned / max * 100 (a division by zero gives inf, and NaN for 0 / 0,
\* which is equal to nothing)
IsPercentageOf(x, earned, max) ==
    IF max = 0 THEN earned > 0 /\ x.d = 0 /\ x.n > 0
    ELSE x.d # 0 /\ x.n * max = 100 * earned * x.d

LoadedPerformanceRows ==
    IF session_state.data_loaded THEN session_state.performance_df.rows ELSE <<>>

\* C1 as stated: every row of the loaded performance table has
\* ScorePercentage = ScoreEarned / maximum possible score * 100, and 100
\* when ScoreEarned equals the maximum possible score.
C1_AsStated ==
    \A i \in 1..Len(LoadedPerformanceRows) :
        LET r == LoadedPerformanceRows[i]
            max == MaxPossibleOf(session_state.performance_df, r)
        IN  /\ IsPercentageOf(r.ScorePercentage, r.ScoreEarned, max)
            /\ r.ScoreEarned = max => r.ScorePercentage = Hundred

\* C1 amended: the same for every row whose maximum possible score is not
\* zero (a zero maximum gives inf or NaN, never 100).
C1_ScorePercentage ==
    \A i \in 1..Len(LoadedPerformanceRows) :
        LET r == LoadedPerformanceRows[i]
            max == MaxPossibleOf(session_state.performance_df, r)
        IN  max # 0 =>
                /\ IsPercentageOf(r.ScorePercentage, r.ScoreEarned, max)
                /\ r.ScoreEarned = max => r.ScorePercentage = Hundred

\* a table loaded from the fact files with a full score (100) and a partial one
C1_Witness ==
    /\ session_state.data_loaded
    /\ FromCsv(session_state.performance_df)
    /\ \E i, j \in 1..Len(LoadedPerformanceRows) :
          /\ LoadedPerformanceRows[i].ScoreEarned = LoadedPerformanceRows[i].MaxPossibleScore
          /\ LoadedPerformanceRows[i].MaxPossibleScore # 0
          /\ LoadedPerformanceRows[i].ScorePercentage = Hundred
          /\ LoadedPerformanceRows[j].ScoreEarned \notin {0, LoadedPerformanceRows[j].MaxPossibleScore}
          /\ LoadedPerformanceRows[j].MaxPossibleScore # 0

\* the row of FactAssessmentPerformance.csv with the given PerformanceKey
SourceFact(key) ==
    LET rows == disk.tables["FactAssessmentPerformance.csv"].rows
    IN  rows[CHOOSE i \in 1..Len(rows) : rows[i].PerformanceKey = key]

\* the session's performance table holds, in every row, the percentage that
\* the fact file's row gives now
PercentagesCurrent ==
    (session_state.data_loaded /\ FromCsv(session_state.performance_df)) =>
        \A i \in 1..Len(session_state.performance_df.rows) :
            LET r == session_state.performance_df.rows[i]
                src == SourceFact(r.PerformanceKey)
            IN  r.ScorePercentage = Percentage(src.ScoreEarned, src.MaxPossibleScore)

\* C2 as stated: whenever main has run (a step that leaves its outputs in
\* run), the performance table it handed to filtering and rendering holds
\* the percentages computed from the source facts as they are then.
C2_AsStated == [][(run'.ran /\ run' # run) => PercentagesCurrent']_vars

\* the directory holds something that makes loading fail: a file is missing,
\* a file lacks a documented column, or a date key is no date
LoadingFails(d) ==
    \/ d.available # CsvFiles
    \/ ~(StudentCols \subseteq d.tables["DimStudent.csv"].cols)
    \/ ~(CourseCols \subseteq d.tables["DimCourse.csv"].cols)
    \/ ~(EnrollmentCols \subseteq d.tables["FactEnrollment.csv"].cols)
    \/ ~(PerformanceCols \subseteq d.tables["FactAssessmentPerformance.csv"].cols)
    \/ ~DateKeysConvert(d.tables["FactEnrollment.csv"], "EnrollmentDateKey")
    \/ ~DateKeysConvert(d.tables["FactAssessmentPerformance.csv"], "SubmissionDateKey")

\* C3 as stated: whenever loading fails in any way, the session ends the
\* load step with the complete sample tables (20 and 30 rows), never with a
\* table of the CSV data that is partly substituted.
C3_AsStated ==
    (session_state.data_loaded /\ LoadingFails(disk)) =>
        /\ session_state.enrollment_df = LoadSampleData.enrollment_df
        /\ session_state.performance_df = LoadSampleData.performance_df
        /\ Len(session_state.enrollment_df.rows) = SampleEnrollmentRows
        /\ Len(session_state.performance_df.rows) = SamplePerformanceRows

\* all eight files are there, each with its documented columns
DocumentedDisk(d) ==
    /\ d.available = CsvFiles
    /\ d.tables["DimStudent.csv"].cols = StudentCols
    /\ d.tables["DimCourse.csv"].cols = CourseCols
    /\ d.tables["FactEnrollment.csv"].cols = EnrollmentCols
    /\ d.tables["FactAssessmentPerformance.csv"].cols = PerformanceCols

\* the columns the filters, the views and the data summary read
EnrollmentColumnsRead ==
    {"StudentName", "CourseTitle", "CategoryName", "MembershipType", "CourseLevel",
     "CompletionStatus", "CoursePrice", "ProgressPercentage", "EnrollmentKey",
     "EnrollmentDate"}
PerformanceColumnsRead ==
    {"StudentName", "CourseTitle", "AssessmentType", "DifficultyLevel",
     "ScorePercentage", "TimeSpentMinutes", "AttemptsCount", "PerformanceKey",
     "SubmissionDate"}

\* C4 as stated: with all eight files and their documented columns, the two
\* loaded tables have every column that is read, and a run ends without a
\* missing-column error.
C4_AsStated ==
    (session_state.data_loaded /\ DocumentedDisk(disk)) =>
        /\ EnrollmentColumnsRead \subseteq session_state.enrollment_df.cols
        /\ PerformanceColumnsRead \subseteq session_state.performance_df.cols
        /\ run.error = ""

\* is the day d within the range main passed to filter_data (both ends included)
InDateRange(d) == d # NaT /\ d >= run.date_range[1] /\ d <= run.date_range[2]

\* the user left no selection empty that a widget offered
NoSelectionLeftEmpty ==
    \A k \in 1..4 :
        OptionsOf(session_state.enrollment_df, FilterColumns[k]) # {} =>
            run.widgets.multiselect[k] # {}

\* the category, membership type, course level and completion status of row r
\* are each among the values main passed to filter_data
AmongSelected(t, r) ==
    \A k \in 1..4 : FilterColumns[k] \in t.cols /\ r[FilterColumns[k]] \in run.lists[k]

SameStudentCourse(e, p) ==
    IF "StudentKey" \in DOMAIN e /\ "StudentKey" \in DOMAIN p
    THEN e.StudentKey = p.StudentKey /\ e.CourseKey = p.CourseKey
    ELSE e.StudentName = p.StudentName /\ e.CourseTitle = p.CourseTitle

\* does enrollment row e pass the four selections of the run, each one that
\* filter_data can evaluate on the enrollment table
PassesSelections(e) ==
    \A k \in 1..4 :
        (run.lists[k] # {} /\ FilterColumns[k] \in DOMAIN e) =>
            e[FilterColumns[k]] \in run.lists[k]

\* the enrollment rows of the session that belong to performance row p
EnrollmentsOf(p) ==
    {i \in 1..Len(session_state.enrollment_df.rows) :
        SameStudentCourse(session_state.enrollment_df.rows[i], p)}

\* C6 as stated: the filtered performance table of a run never holds a row
\* whose student and course are enrolled but whose every enrollment the
\* category, membership, level and status selections exclude.
C6_AsStated ==
    run.ran =>
        \A j \in 1..Len(run.filtered_performance.rows) :
            LET p == run.filtered_performance.rows[j]
            IN  EnrollmentsOf(p) # {} =>
                    \E i \in EnrollmentsOf(p) :
                        PassesSelections(session_state.enrollment_df.rows[i])

\* the dimension rows a foreign key resolves to
Resolved(dim, key, value) ==
    {i \in 1..Len(dim.rows) : dim.rows[i][key] = value}

KeyUnique(dim, key) ==
    \A i, j \in 1..Len(dim.rows) : dim.rows[i][key] = dim.rows[j][key] => i = j

\* row carries the attributes attrs of the dimension row its key resolves
\* to, and nulls when the key resolves to none
CarriesDimension(row, dim, key, attrs) ==
    IF Resolved(dim, key, row[key]) = {}
    THEN \A a \in attrs : row[a] = NaN
    ELSE \E i \in Resolved(dim, key, row[key]) : \A a \in attrs : row[a] = dim.rows[i][a]

\* the session holds the tables load_data_from_csv joined from all the files
\* of the directory, the dimension keys being unique
JoinedFromUniqueKeys ==
    /\ session_state.data_loaded
    /\ FromCsv(session_state.enrollment_df)
    /\ disk.available = CsvFiles
    /\ KeyUnique(disk.tables["DimStudent.csv"], "StudentKey")
    /\ KeyUnique(disk.tables["DimCourse.csv"], "CourseKey")

IsRateOf(x, count, total) ==
    /\ x.d # 0
    /\ x.n * total = 100 * count * x.d
    /\ 0 <= x.n /\ x.n <= 100 * x.d

\* the rows with status 'Completed', the rows with a score percentage of 70
\* or more (inf is, NaN is not)
Completed(rows) == {i \in 1..Len(rows) : rows[i].CompletionStatus = "Completed"}
Succeeded(rows) ==
    {i \in 1..Len(rows) :
        LET x == rows[i].ScorePercentage
        IN  \/ x.d = 0 /\ x.n > 0
            \/ x.d # 0 /\ x.n >= 70 * x.d}

HasMetric(view, k) == k \in DOMAIN view.metrics

\* C8: the completion rate a run's enrollment view shows is 100 * (rows with
\* status 'Completed') / (rows) of the table the view got; the success rate
\* the performance view shows, and the one the integrated view shows for
\* each membership type, is 100 * (rows with ScorePercentage >= 70) / (rows)
\* of that table or segment; each lies between 0 and 100.
C8_Rates ==
    /\ HasMetric(run.enrollment_view, "completion_rate") =>
          IsRateOf(run.enrollment_view.metrics.completion_rate,
                   Cardinality(Completed(run.filtered_enrollment.rows)),
                   Len(run.filtered_enrollment.rows))
    /\ HasMetric(run.performance_view, "success_rate") =>
          IsRateOf(run.performance_view.metrics.success_rate,
                   Cardinality(Succeeded(run.filtered_performance.rows)),
                   Len(run.filtered_performance.rows))
    /\ run.integrated_view.status = "rendered" =>
          \A m \in DOMAIN run.integrated_view.metrics :
              LET segment == SelectRows(run.integrated_view.integrated_rows,
                                        LAMBDA r : r.MembershipType = m)
              IN  /\ Len(segment) > 0
                  /\ IsRateOf(run.integrated_view.metrics[m],
                              Cardinality(Succeeded(segment)), Len(segment))

\* a run showed a completion rate strictly between 0 and 100, and a success
\* rate that counts a row whose score percentage is exactly 70
C8_Witness ==
    /\ HasMetric(run.enrollment_view, "completion_rate")
    /\ run.enrollment_view.metrics.completion_rate.n > 0
    /\ run.enrollment_view.metrics.completion_rate.d > 1
    /\ HasMetric(run.performance_view, "success_rate")
    /\ run.performance_view.metrics.success_rate.n > 0
    /\ run.integrated_view.status = "rendered"

\* a run's performance view counted a row of exactly 70 percent as a success
C8_WitnessSeventy ==
    /\ HasMetric(run.performance_view, "success_rate")
    /\ \E i \in Succeeded(run.filtered_performance.rows) :
          run.filtered_performance.rows[i].ScorePercentage = [n |-> 70, d |-> 1]

\* a restriction of the call that filter_data can evaluate
Evaluable(k) == call.lists[k] # {} /\ FilterColumns[k] \in call.df.cols
DateEvaluable == call.date_col \in call.df.cols

\* row r satisfies every restriction of the call that can be evaluated
SatisfiesEvaluable(r) ==
    /\ DateEvaluable =>
          /\ r[call.date_col] # NaT
          /\ r[call.date_col] >= call.date_range[1]
          /\ r[call.date_col] <= call.date_range[2]
    /\ \A k \in 1..4 : Evaluable(k) => r[FilterColumns[k]] \in call.lists[k]

\* C9: filter_data returns (it has no raising outcome) the rows of its table,
\* in their order, that satisfy every restriction it can evaluate; a
\* restriction with an empty list or an absent column, the date one
\* included, narrows nothing; an empty table comes back as it is.
C9_SkipsUnevaluable ==
    call.made =>
        /\ call.result.cols = call.df.cols
        /\ call.result.rows = SelectRows(call.df.rows, LAMBDA r : SatisfiesEvaluable(r))
        /\ Len(call.df.rows) = 0 => call.result = call.df

\* a call whose table lacks the date column and the category column, given a
\* category list, that a remaining restriction narrowed but did not empty
C9_Witness ==
    /\ call.made
    /\ ~DateEvaluable
    /\ \E k \in 1..4 : call.lists[k] # {} /\ ~Evaluable(k)
    /\ \E k \in 1..4 : Evaluable(k)
    /\ Len(call.result.rows) > 0
    /\ Len(call.result.rows) < Len(call.df.rows)

RunViews == {run.enrollment_view, run.performance_view, run.integrated_view}

\* C10: no view of a run divides by zero, for any selection: a view that is
\* handed an empty table (the integrated view: either table empty) ends with
\* its warning, having computed nothing.
C10_NoZeroDivisor ==
    /\ \A v \in RunViews : 0 \notin v.divisors
    /\ (run.enrollment_view.status # "not run" /\ Len(run.filtered_enrollment.rows) = 0) =>
          run.enrollment_view.status = "warning" /\ run.enrollment_view.metrics = <<>>
    /\ (run.performance_view.status # "not run" /\ Len(run.filtered_performance.rows) = 0) =>
          run.performance_view.status = "warning" /\ run.performance_view.metrics = <<>>
    /\ (/\ run.integrated_view.status # "not run"
        /\ (Len(run.filtered_enrollment.rows) = 0 \/ Len(run.filtered_performance.rows) = 0)) =>
          run.integrated_view.status = "warning" /\ run.integrated_view.metrics = <<>>

\* a selection left the enrollment table without rows and the performance
\* table with some: the enrollment and integrated views warned, the
\* performance view divided by its row count
C10_Witness ==
    /\ run.ran
    /\ Len(session_state.enrollment_df.rows) > 0
    /\ Len(run.filtered_enrollment.rows) = 0
    /\ run.enrollment_view.status = "warning"
    /\ Len(run.filtered_performance.rows) > 0
    /\ run.performance_view.divisors # {}
    /\ run.integrated_view.status = "warning"

\* a selection left the performance table without rows and the enrollment
\* table with some
C10_WitnessPerformance ==
    /\ run.ran
    /\ Len(run.filtered_enrollment.rows) > 0
    /\ Len(run.filtered_performance.rows) = 0
    /\ run.enrollment_view.divisors # {}
    /\ run.performance_view.status = "warning"

\* do an enrollment row and a performance row agree on both join keys
KeysAgree(e, p) == e.StudentName = p.StudentName /\ e.CourseTitle = p.CourseTitle

\* the pairs <<i, j>> of a filtered enrollment row and a filtered performance
\* row that agree on both keys
MatchingPairs ==
    {ij \in (1..Len(run.filtered_enrollment.rows)) \X (1..Len(run.filtered_performance.rows)) :
        KeysAgree(run.filtered_enrollment.rows[ij[1]], run.filtered_performance.rows[ij[2]])}

\* integrated row r is the pair: the enrollment's and the performance row's
\* projected columns side by side
IsPairRow(r, e, p) ==
    /\ DOMAIN r = IntegratedEnrollmentCols \cup IntegratedPerformanceCols
    /\ \A c \in IntegratedEnrollmentCols : r[c] = e[c]
    /\ \A c \in IntegratedPerformanceCols : r[c] = p[c]

\* the performance rows that match enrollment row i
MatchesOf(i) == {j \in 1..Len(run.filtered_performance.rows) : <<i, j>> \in MatchingPairs}

\* the sum, over the enrollment rows 1..n of membership type m, of the
\* progress times the number of matching performance rows
RECURSIVE WeightedProgress(_, _)
WeightedProgress(m, n) ==
    IF n = 0 THEN 0
    ELSE WeightedProgress(m, n - 1)
         + (IF run.filtered_enrollment.rows[n].MembershipType = m
            THEN run.filtered_enrollment.rows[n].ProgressPercentage
                 * Cardinality(MatchesOf(n))
            ELSE 0)

RECURSIVE WeightOf(_, _)
WeightOf(m, n) ==
    IF n = 0 THEN 0
    ELSE WeightOf(m, n - 1)
         + (IF run.filtered_enrollment.rows[n].MembershipType = m
            THEN Cardinality(MatchesOf(n)) ELSE 0)

\* C11: the integrated table of a run that rendered the integrated view is
\* holds one row for every pair of a filtered enrollment row and a filtered
\* performance row agreeing on StudentName and CourseTitle, and no other row
\* (so an unmatched row of either table is absent), and the mean progress
\* shown for a membership type weighs each enrollment by the number of
\* performance rows that match it.
C11_InnerJoin ==
    run.integrated_view.status = "rendered" =>
        LET rows == run.integrated_view.integrated_rows
            e == run.filtered_enrollment.rows
            p == run.filtered_performance.rows
        IN  /\ Len(rows) = Cardinality(MatchingPairs)
            /\ \A a \in 1..Len(rows) :
                  \E ij \in MatchingPairs : IsPairRow(rows[a], e[ij[1]], p[ij[2]])
            /\ \A ij \in MatchingPairs :
                  Cardinality({a \in 1..Len(rows) : IsPairRow(rows[a], e[ij[1]], p[ij[2]])})
                  = Cardinality({kl \in MatchingPairs :
                        /\ \A c \in IntegratedEnrollmentCols : e[kl[1]][c] = e[ij[1]][c]
                        /\ \A c \in IntegratedPerformanceCols : p[kl[2]][c] = p[ij[2]][c]})
            /\ \A m \in DOMAIN run.integrated_view.avg_progress :
                  LET x == run.integrated_view.avg_progress[m]
                  IN  /\ WeightOf(m, Len(e)) > 0
                      /\ x.d # 0
                      /\ x.n * WeightOf(m, Len(e)) = WeightedProgress(m, Len(e)) * x.d

\* a run whose integrated table has an enrollment matched by two performance
\* rows, while some enrollment and some performance row have no match
C11_Witness ==
    /\ run.integrated_view.status = "rendered"
    /\ \E i \in 1..Len(run.filtered_enrollment.rows) : Cardinality(MatchesOf(i)) >= 2
    /\ \E i \in 1..Len(run.filtered_enrollment.rows) : MatchesOf(i) = {}
    /\ \E j \in 1..Len(run.filtered_performance.rows) :
          \A i \in 1..Len(run.filtered_enrollment.rows) : <<i, j>> \notin MatchingPairs

\* the run was made with the default selection: the widgets as
\* create_sidebar_filters first shows them for the session's enrollment table
DefaultSelection ==
    /\ run.ran
    /\ Len(session_state.enrollment_df.rows) > 0
    /\ run.widgets = DefaultWidgets(session_state.enrollment_df)

\* C12 as stated: under the default selection (the whole range from the
\* minimum to the maximum EnrollmentDate, every option of every list) the
\* filtered enrollment table has all rows of the enrollment table and the
\* filtered performance table all rows of the performance table.
C12_AsStated ==
    DefaultSelection =>
        /\ run.filtered_enrollment.rows = session_state.enrollment_df.rows
        /\ run.filtered_performance.rows = session_state.performance_df.rows

\* the enrollment half of the same statement
C12_EnrollmentHalf ==
    DefaultSelection =>
        run.filtered_enrollment.rows = session_state.enrollment_df.rows

\* both tables of the session are set: they are what the load returned
TablesAsLoaded ==
    /\ cache # <<>>
    /\ session_state.enrollment_df = cache[1].enrollment_df
    /\ session_state.performance_df = cache[1].performance_df

\* the step is a run of main (the only step that leaves a finished run and
\* the directory as it was)
MainRuns == run'.ran /\ disk' = disk /\ call' = call

\* C13 as stated: a run of main leaves data_loaded set only with both tables
\* stored, leaves it unset when loading failed, loads at most once in a
\* session, and a rerun leaves both stored tables as they were.
C13_AsStated ==
    [][MainRuns =>
          /\ session_state'.data_loaded => TablesAsLoaded'
          /\ (run'.loaded_now /\ LoadingFails(disk)) => ~session_state'.data_loaded
          /\ session_state.data_loaded =>
                /\ ~run'.loaded_now
                /\ session_state' = session_state]_vars

\* C13: every run of main ends with data_loaded set and both tables stored
\* as the load returned them (the sample tables when loading the CSV files
\* failed); a run of a session that has data_loaded set does not load, and
\* leaves both stored tables with the same rows and columns, whatever was
\* filtered and rendered.
C13_LoadOnceFrame ==
    [][MainRuns =>
          /\ session_state'.data_loaded
          /\ TablesAsLoaded'
          /\ session_state.data_loaded =>
                /\ ~run'.loaded_now
                /\ session_state' = session_state]_vars

\* a rerun of a loaded session whose enrollment view got as far as the
\* EnrollmentMonth column, the stored table still being without it
C13_Witness ==
    /\ run.ran
    /\ ~run.loaded_now
    /\ session_state.data_loaded
    /\ AddsEnrollmentMonth(run.filtered_enrollment)
    /\ run.enrollment_view.status = "rendered"
    /\ "EnrollmentMonth" \notin session_state.enrollment_df.cols

\* the rows of a table at the positions S, in the table's order
RECURSIVE RowsAt(_, _, _)
RowsAt(rows, S, n) ==
    IF n = 0 THEN <<>>
    ELSE IF n \in S THEN Append(RowsAt(rows, S, n - 1), rows[n])
    ELSE RowsAt(rows, S, n - 1)

\* restriction k of the call applied to rows: 0 is the date restriction,
\* 1..4 the category, membership, level and status restrictions
Restrict(rows, k) ==
    IF k = 0 THEN DateFilter(rows, call.df.cols, call.date_col, call.date_range)
    ELSE IsinFilter(rows, call.df.cols, FilterColumns[k], call.lists[k])

\* the five restrictions applied in the order given
RECURSIVE RestrictInOrder(_, _)
RestrictInOrder(rows, order) ==
    IF order = <<>> THEN rows
    ELSE RestrictInOrder(Restrict(rows, Head(order)), Tail(order))

\* every order of the five restrictions
RestrictionOrders ==
    {o \in [1..5 -> 0..4] : \A a, b \in 1..5 : o[a] = o[b] => a = b}

\* C14: the result of filter_data has the columns of its table and rows that
\* are rows of the table, unaltered and in the table's order; the table is
\* left as it was; filter_data applied to the result with the same arguments
\* returns the result; the restrictions applied in any order give the
\* result's rows.
C14_FilterAlgebra ==
    call.made =>
        /\ call.result.cols = call.df.cols
        /\ \E S \in SUBSET (1..Len(call.df.rows)) :
              call.result.rows = RowsAt(call.df.rows, S, Len(call.df.rows))
        /\ call.df_after = call.df
        /\ call.again = call.result
        /\ \A o \in RestrictionOrders :
              RestrictInOrder(call.df.rows, o) = call.result.rows

\* a call in which the date restriction and a list restriction each remove a
\* row that the other keeps, and a row is left
C14_Witness ==
    /\ call.made
    /\ Len(call.result.rows) > 0
    /\ \E k \in 1..4 :
          /\ Len(Restrict(call.df.rows, 0)) < Len(call.df.rows)
          /\ Len(Restrict(call.df.rows, k)) < Len(call.df.rows)
          /\ Len(call.result.rows) < Len(Restrict(call.df.rows, 0))
          /\ Len(call.result.rows) < Len(Restrict(call.df.rows, k))

====
